---- MODULE Spec2Model ----
(***************************************************************************)
(* A model of psdecode.py's deobfuscate_powershell_reorder: the            *)
(* format-string reordering resolver.  Text is a sequence of characters    *)
(* (one-character strings); every regular expression of the source is an   *)
(* operator that matches as Python's re module does on that text.          *)
(***************************************************************************)
EXTENDS Integers, Sequences, FiniteSets, TLC

(***************************************************************************)
(* Bounds of the model.                                                    *)
(***************************************************************************)
\* longest template and longest fragment list of a generated expression;
\* template indices range over 0..MaxArity, so one index is out of range
MaxArity == 2
\* deepest nesting of generated reorder expressions
MaxDepth == 2
\* pieces in a generated line of the piece family
MaxPieces == 3
\* lines in a batch of the batch specification
MaxLines == 2
\* the sweep counter (an observer of the while loop) saturates here
MaxSweeps == 3

(***************************************************************************)
(* Characters.                                                             *)
(***************************************************************************)
UpperSeq == <<"A","B","C","D","E","F","G","H","I","J","K","L","M",
              "N","O","P","Q","R","S","T","U","V","W","X","Y","Z">>
LowerSeq == <<"a","b","c","d","e","f","g","h","i","j","k","l","m",
              "n","o","p","q","r","s","t","u","v","w","x","y","z">>
DigitSeq == <<"0","1","2","3","4","5","6","7","8","9">>

Letters == {UpperSeq[i] : i \in 1..26} \cup {LowerSeq[i] : i \in 1..26}
\* \d
Digits == {DigitSeq[i] : i \in 1..10}
\* \w
Word == Letters \cup Digits \cup {"_"}
\* \s, and what str.strip() strips
Space == {" ", "\t", "\n", "\r", "\f"}

\* re.IGNORECASE compares characters after case folding
Fold(c) ==
  IF \E i \in 1..26 : UpperSeq[i] = c
  THEN LowerSeq[CHOOSE i \in 1..26 : UpperSeq[i] = c]
  ELSE c

\* the backtick (code point 96), PowerShell's escape and line-continuation
\* marker; the lexer of TLA+ has no string for it, so it goes by this name
Backtick == "BACKTICK"

\* the printable ASCII characters, code points 32..126
Ascii == <<" ","!","\"","#","$","%","&","'","(",")","*","+",",","-",".","/",
           "0","1","2","3","4","5","6","7","8","9",":",";","<","=",">","?",
           "@","A","B","C","D","E","F","G","H","I","J","K","L","M","N","O",
           "P","Q","R","S","T","U","V","W","X","Y","Z","[","\\","]","^","_",
           Backtick,"a","b","c","d","e","f","g","h","i","j","k","l","m","n","o",
           "p","q","r","s","t","u","v","w","x","y","z","{","|","}","~">>

\* chr() raises ValueError above this code point
MaxCodePoint == 1114111

\* chr(n) for 0 <= n <= MaxCodePoint; a code point outside the table is
\* the one-character text named by its number
chr(n) ==
  IF n \in 32..126 THEN Ascii[n - 31]
  ELSE IF n = 9 THEN "\t"
  ELSE IF n = 10 THEN "\n"
  ELSE IF n = 12 THEN "\f"
  ELSE IF n = 13 THEN "\r"
  ELSE "chr" \o ToString(n)

\* int(digits, 10)
RECURSIVE int(_)
int(ds) ==
  IF ds = <<>> THEN 0
  ELSE int(SubSeq(ds, 1, Len(ds) - 1)) * 10
       + ((CHOOSE k \in 1..10 : DigitSeq[k] = ds[Len(ds)]) - 1)

\* str(n) for n >= 0
RECURSIVE str(_)
str(n) ==
  IF n < 10 THEN <<DigitSeq[n + 1]>>
  ELSE str(n \div 10) \o <<DigitSeq[(n % 10) + 1]>>

(***************************************************************************)
(* String operations of Python.                                            *)
(***************************************************************************)
\* s[i:].startswith(lit)
StartsAt(s, i, lit) ==
  /\ i + Len(lit) - 1 <= Len(s)
  /\ \A k \in 1..Len(lit) : s[i + k - 1] = lit[k]

\* the same under re.IGNORECASE (lit is in lower case)
StartsAtFold(s, i, lit) ==
  /\ i + Len(lit) - 1 <= Len(s)
  /\ \A k \in 1..Len(lit) : Fold(s[i + k - 1]) = lit[k]

\* str.replace(old, new): every non-overlapping occurrence, left to right
RECURSIVE ReplaceFrom(_, _, _, _)
ReplaceFrom(s, old, new, i) ==
  IF i > Len(s) THEN <<>>
  ELSE IF StartsAt(s, i, old)
       THEN new \o ReplaceFrom(s, old, new, i + Len(old))
       ELSE <<s[i]>> \o ReplaceFrom(s, old, new, i + 1)

replace(s, old, new) == ReplaceFrom(s, old, new, 1)

\* str.strip()
RECURSIVE lstrip(_)
lstrip(s) == IF s # <<>> /\ s[1] \in Space THEN lstrip(Tail(s)) ELSE s
RECURSIVE rstrip(_)
rstrip(s) ==
  IF s # <<>> /\ s[Len(s)] \in Space
  THEN rstrip(SubSeq(s, 1, Len(s) - 1)) ELSE s
strip(s) == rstrip(lstrip(s))

\* the first index j >= i at which s leaves the character class C
RECURSIVE RunEnd(_, _, _)
RunEnd(s, i, C) ==
  IF i <= Len(s) /\ s[i] \in C THEN RunEnd(s, i + 1, C) ELSE i

(***************************************************************************)
(* The regular expressions of deobfuscate_powershell_reorder.  A matcher   *)
(* M(s, i) gives the index just after the match of the pattern that starts *)
(* at index i of s, or 0 when the pattern does not match there.  Every     *)
(* greedy run below is followed by a character outside its class, so the   *)
(* match is the one Python's backtracking finds.                           *)
(***************************************************************************)
\* charset, as the character class the source puts it in: \w \d \n \s and
\* the punctuation | , . - = / : # _ { } [ ]
charset ==
  Word \cup Digits \cup Space
       \cup {"|", ",", ".", "-", "=", "/", ":", "#", "_", "{", "}", "[", "]"}

\* the class of regex_finder's second group: ['<charset>',]
finder_class == charset \cup {"'", ","}

\* the class of regex_finder's first group: [{\d+}]
template_class == Digits \cup {"{", "+", "}"}

\* regex_char = \[char\](\d+), always used with re.IGNORECASE
regex_char(s, i) ==
  LET e == RunEnd(s, i + 6, Digits)
  IN  IF StartsAtFold(s, i, <<"[", "c", "h", "a", "r", "]">>) /\ e > i + 6
      THEN e ELSE 0

\* regex_position = {(\d+)}
regex_position(s, i) ==
  LET e == RunEnd(s, i + 1, Digits)
  IN  IF /\ i <= Len(s) /\ s[i] = "{"
         /\ e > i + 1 /\ e <= Len(s) /\ s[e] = "}"
      THEN e + 1 ELSE 0

\* regex_content = '([<charset>]+)'
regex_content(s, i) ==
  LET e == RunEnd(s, i + 1, charset)
  IN  IF /\ i <= Len(s) /\ s[i] = "'"
         /\ e > i + 1 /\ e <= Len(s) /\ s[e] = "'"
      THEN e + 1 ELSE 0

\* regex_placeholder = ({#subs_\d+}), as re.match uses it (no flags)
regex_placeholder(s, i) ==
  LET e == RunEnd(s, i + 7, Digits)
  IN  IF /\ StartsAt(s, i, <<"{", "#", "s", "u", "b", "s", "_">>)
         /\ e > i + 7 /\ e <= Len(s) /\ s[e] = "}"
      THEN e + 1 ELSE 0

\* regex_placeholder under re.IGNORECASE, as the expansion sweep uses it
regex_placeholder_ignorecase(s, i) ==
  LET e == RunEnd(s, i + 7, Digits)
  IN  IF /\ StartsAtFold(s, i, <<"{", "#", "s", "u", "b", "s", "_">>)
         /\ e > i + 7 /\ e <= Len(s) /\ s[e] = "}"
      THEN e + 1 ELSE 0

\* regex_finder = \(\"([{\d+}]+)\"\s*-f\s*(['<charset>',]+)\) with
\* re.IGNORECASE.  finder_parts gives the indices of the match at i:
\* g1 the first group's start, q the quote closing it, m the minus sign,
\* a the first index after -f, w the end of the white space there, e the
\* closing parenthesis.
finder_parts(s, i) ==
  LET q == RunEnd(s, i + 2, template_class)
      m == RunEnd(s, q + 1, Space)
      a == m + 2
  IN  [g1 |-> i + 2, q |-> q, m |-> m, a |-> a,
       w |-> RunEnd(s, a, Space), e |-> RunEnd(s, a, finder_class)]

regex_finder(s, i) ==
  LET p == finder_parts(s, i)
  IN  IF /\ StartsAt(s, i, <<"(", "\"">>)
         /\ p.q > p.g1 /\ p.q <= Len(s) /\ s[p.q] = "\""
         /\ p.m + 1 <= Len(s) /\ s[p.m] = "-" /\ Fold(s[p.m + 1]) = "f"
         /\ p.e > p.a /\ p.e <= Len(s) /\ s[p.e] = ")"
      THEN p.e + 1 ELSE 0

\* word.groups()[0] of the regex_finder match at i
finder_group1(s, i) ==
  LET p == finder_parts(s, i) IN SubSeq(s, p.g1, p.q - 1)

\* word.groups()[1]: \s* takes the white space after -f, and gives one
\* character back when nothing else is left for the group
finder_group2(s, i) ==
  LET p == finder_parts(s, i)
  IN  SubSeq(s, IF p.w < p.e THEN p.w ELSE p.e - 1, p.e - 1)

\* re.finditer: the non-overlapping matches <<from, to>> (to exclusive) of
\* M in s from index i on, left to right
RECURSIVE finditer(_, _, _)
finditer(M(_, _), s, i) ==
  IF i > Len(s) THEN <<>>
  ELSE IF M(s, i) # 0
       THEN <<<<i, M(s, i)>>>> \o finditer(M, s, M(s, i))
       ELSE finditer(M, s, i + 1)

\* re.search(...) is not None
search(M(_, _), s) == \E i \in 1..Len(s) : M(s, i) # 0

\* re.findall of a pattern whose only group is the match without its first
\* and its last character (regex_position, regex_content)
findall(M(_, _), s) ==
  LET ms == finditer(M, s, 1)
  IN  [k \in 1..Len(ms) |-> SubSeq(s, ms[k][1] + 1, ms[k][2] - 2)]

\* word.group()
group(s, m) == SubSeq(s, m[1], m[2] - 1)

(***************************************************************************)
(* The body of the for loop, statement by statement.  A frame is the       *)
(* loop's local state: content, count_matches, occurrences, and exc, the   *)
(* exception the statement raised ("" when it raised none).                *)
(***************************************************************************)
NoOccurrences == [k \in {} |-> <<>>]

Frame(c, n, occ, exc) ==
  [content |-> c, count_matches |-> n, occurrences |-> occ, exc |-> exc]

\* "'" + text + "'"
quoted(text) == <<"'">> \o text \o <<"'">>

\* placeholder = "'{#subs_" + str(count_matches) + "}'"
placeholder(n) ==
  <<"'", "{", "#", "s", "u", "b", "s", "_">> \o str(n) \o <<"}", "'">>

\* the for loop over the regex_char matches of the line: each construct
\* found in the line as it was is replaced throughout the current content,
\* and then every backtick of the content is removed
RECURSIVE char_loop(_, _, _)
char_loop(orig, ms, f) ==
  IF ms = <<>> \/ f.exc # "" THEN f
  ELSE LET total == group(orig, Head(ms))
           letter == int(SubSeq(total, 7, Len(total)))
       IN  IF letter > MaxCodePoint
           THEN [f EXCEPT !.exc = "ValueError"]
           ELSE char_loop(orig, Tail(ms),
                  [f EXCEPT !.content =
                     replace(replace(f.content, total, quoted(<<chr(letter)>>)),
                             <<Backtick>>, <<>>)])

\* a character-code loop that removes the backticks of every line
char_pass_stripping_every_line(f) ==
  LET g == char_loop(f.content, finditer(regex_char, f.content, 1), f)
  IN  [g EXCEPT !.content = replace(g.content, <<Backtick>>, <<>>)]

char_pass(f) == char_loop(f.content, finditer(regex_char, f.content, 1), f)

\* a resolver that takes the fragments in the order of the fragment list
positions_in_list_order(g1) ==
  LET ps == findall(regex_position, strip(replace(g1, <<"\n">>, <<>>)))
  IN  [k \in 1..Len(ps) |-> str(k - 1)]

\* positions = re.findall(regex_position, group1.replace("\n", "").strip())
positions_of(g1) ==
  findall(regex_position, strip(replace(g1, <<"\n">>, <<>>)))

\* contents = re.findall(regex_content, group2.replace("\n", "").strip())
contents_of(g2) ==
  findall(regex_content, strip(replace(g2, <<"\n">>, <<>>)))

\* a resolver that never looks a placeholder fragment up
fragment_value_no_lookup(c, occ) == [out |-> strip(c), exc |-> ""]

\* what one fragment adds to out: the table's literal for a fragment that
\* starts as a placeholder does, else the fragment stripped; a missing key
\* raises KeyError
fragment_value(c, occ) ==
  IF regex_placeholder(c, 1) # 0
  THEN IF quoted(c) \in DOMAIN occ
       THEN [out |-> occ[quoted(c)], exc |-> ""]
       ELSE [out |-> <<>>, exc |-> "KeyError"]
  ELSE [out |-> strip(c), exc |-> ""]

\* for p in positions: out += ...; contents[int(p)] raises IndexError for
\* an index that is not below len(contents)
RECURSIVE build_out(_, _, _, _)
build_out(positions, contents, occ, out) ==
  IF positions = <<>> THEN [out |-> out, exc |-> ""]
  ELSE LET p == int(Head(positions))
       IN  IF p >= Len(contents) THEN [out |-> out, exc |-> "IndexError"]
           ELSE LET v == fragment_value(contents[p + 1], occ)
                IN  IF v.exc # "" THEN [out |-> out, exc |-> v.exc]
                    ELSE build_out(Tail(positions), contents, occ,
                                   out \o v.out)

\* the table with occurrences[key] = out
Put(occ, key, out) ==
  [k \in DOMAIN occ \cup {key} |-> IF k = key THEN out ELSE occ[k]]

\* one iteration of the while loop: the for loop over the regex_finder
\* matches of the content as it was when the sweep began
RECURSIVE sweep_loop(_, _, _)
sweep_loop(orig, ms, f) ==
  IF ms = <<>> \/ f.exc # "" THEN f
  ELSE LET i == Head(ms)[1]
           positions == positions_of(finder_group1(orig, i))
           contents == contents_of(finder_group2(orig, i))
           r == build_out(positions, contents, f.occurrences, <<>>)
       IN  IF Len(positions) # Len(contents)
           THEN sweep_loop(orig, Tail(ms), f)
           ELSE IF r.exc # "" THEN [f EXCEPT !.exc = r.exc]
           ELSE sweep_loop(orig, Tail(ms),
                  Frame(replace(f.content, group(orig, Head(ms)),
                                placeholder(f.count_matches)),
                        f.count_matches + 1,
                        Put(f.occurrences, placeholder(f.count_matches), r.out),
                        ""))

sweep(f) == sweep_loop(f.content, finditer(regex_finder, f.content, 1), f)

\* the final for loop: every placeholder found in the content as it was is
\* looked up (KeyError when the table lacks it) and replaced, quotes included
RECURSIVE expand_loop(_, _, _)
expand_loop(orig, ms, f) ==
  IF ms = <<>> \/ f.exc # "" THEN f
  ELSE LET key == quoted(group(orig, Head(ms)))
       IN  IF key \notin DOMAIN f.occurrences
           THEN [f EXCEPT !.exc = "KeyError"]
           ELSE expand_loop(orig, Tail(ms),
                  [f EXCEPT !.content =
                     replace(f.content, key, f.occurrences[key])])

\* a resolver that returns without the final loop
expand_skipped(f) == f

expand(f) ==
  expand_loop(f.content, finditer(regex_placeholder_ignorecase, f.content, 1), f)

\* the body of the for loop on one line, from a fresh counter and table:
\* the frame it appends from, or the frame that raised; fuel bounds the
\* sweeps (a sweep that resolves something removes a parenthesis)
RECURSIVE scan(_, _)
scan(f, fuel) ==
  IF f.exc # "" \/ ~search(regex_finder, f.content) THEN f
  ELSE IF fuel = 0 THEN [f EXCEPT !.exc = "no fixed point"]
  ELSE scan(sweep(f), fuel - 1)

resolve_line(line) ==
  LET f == scan(char_pass(Frame(line, 0, NoOccurrences, "")), Len(line))
  IN  IF f.exc # "" THEN f ELSE expand(f)

(***************************************************************************)
(* The lines the model reads.                                              *)
(***************************************************************************)
\* the sequences over S of length 1..n
SeqsUpTo(S, n) == UNION {[1..k -> S] : k \in 1..n}

RECURSIVE Concat(_)
Concat(ss) == IF ss = <<>> THEN <<>> ELSE Head(ss) \o Concat(Tail(ss))

\* "{i}{j}..." for the indices t
TemplateText(t) ==
  Concat([k \in 1..Len(t) |-> <<"{">> \o str(t[k]) \o <<"}">>])

\* the arguments, comma separated
RECURSIVE Joined(_)
Joined(args) ==
  IF Len(args) = 1 THEN args[1]
  ELSE args[1] \o <<",">> \o Joined(Tail(args))

\* the reorder expression ("<template>" -f <args>)
Expr(t, args) ==
  <<"(", "\"">> \o TemplateText(t) \o <<"\"", " ", "-", "f", " ">>
     \o Joined(args) \o <<")">>

Quoted(fs) == [k \in 1..Len(fs) |-> quoted(fs[k])]

\* the text of a placeholder token, without its quotes
TokenText(n) == <<"{", "#", "s", "u", "b", "s", "_">> \o str(n) \o <<"}">>

\* literal fragment texts: plain, padded with white space, and the two
\* halves of a token
PlainFrags == {<<"A">>, <<" ", "B", " ">>}
SplitFrags == {<<"{", "#", "s", "u">>, <<"b", "s", "_", "0", "}">>}
Frags == PlainFrags \cup SplitFrags

Templates == SeqsUpTo(0..MaxArity, MaxArity)
FragLists == SeqsUpTo(Frags, MaxArity)

\* the text before and after an expression
Affixes == {<<<<>>, <<>>>>, <<<<"x", " ">>, <<" ", "y", "\n">>>>}

\* a line holding one expression of literal fragments
SimpleLine(a, t, fs) == a[1] \o Expr(t, Quoted(fs)) \o a[2]
SimpleCases ==
  {[text |-> SimpleLine(a, t, fs), a |-> a, t |-> t, fs |-> fs] :
     a \in Affixes, t \in Templates, fs \in FragLists}
SimpleLines == {c.text : c \in SimpleCases}

\* nested expressions with what they denote: text, depth, and values, the
\* literal each level denotes, innermost first
NestFrags == {<<"A">>, <<"B">>}
WrapFrags == {<<"C">>}
Picked(t, vs) == Concat([k \in 1..Len(t) |-> vs[t[k] + 1]])
Level1 ==
  UNION {{[text |-> Expr(t, Quoted(fs)), depth |-> 1,
           values |-> <<Picked(t, fs)>>] :
            t \in [1..Len(fs) -> 0..(Len(fs) - 1)]} :
         fs \in SeqsUpTo(NestFrags, 2)}
Wrap(t, slot, f, inner) ==
  LET args == [k \in 1..2 |-> IF k = slot THEN inner.text ELSE quoted(f)]
      vals == [k \in 1..2 |->
                 IF k = slot THEN inner.values[inner.depth] ELSE f]
  IN  [text |-> Expr(t, args), depth |-> inner.depth + 1,
       values |-> Append(inner.values, Picked(t, vals))]
RECURSIVE Nested(_)
Nested(d) ==
  IF d = 1 THEN Level1
  ELSE {Wrap(t, slot, f, inner) :
          t \in [1..2 -> 0..1], slot \in 1..2, f \in WrapFrags,
          inner \in {n \in Nested(d - 1) : n.depth = d - 1}}
       \cup Nested(d - 1)
NestedExprs == {n \in Nested(MaxDepth) : n.depth > 1}
NestedLines == {n.text : n \in NestedExprs}

\* lines made of pieces: text, a backtick, character codes (one a prefix
\* of the other), a quoted token, an expression over a character code, an
\* expression whose fragment is a token
Char72 == <<"[", "c", "h", "a", "r", "]", "7", "2">>
Char7 == <<"[", "c", "h", "a", "r", "]", "7">>
Pieces ==
  {<<"x">>, <<Backtick>>, Char72, Char7, quoted(TokenText(0)),
   Expr(<<0>>, <<Char72>>), Expr(<<0>>, <<quoted(TokenText(0))>>)}
PieceLines == {Concat(ps) : ps \in SeqsUpTo(Pieces, MaxPieces)}

\* a line whose outer template is completed by an inner expression:
\* ("{("{0}" -f '0')}" -f 'A')
AssembledLines ==
  {<<"(", "\"", "{">> \o Expr(<<0>>, <<quoted(<<"0">>)>>)
     \o <<"}", "\"", " ", "-", "f", " ">> \o quoted(<<"A">>) \o <<")">>}

InputLines == SimpleLines \cup NestedLines \cup PieceLines \cup AssembledLines

\* the lines of the batches: their outcome would change if the counter or
\* the table outlived a line
BatchLines ==
  {Expr(<<0>>, <<quoted(<<"B">>)>>),
   quoted(TokenText(0)) \o <<" ">> \o Expr(<<0>>, <<quoted(<<"A">>)>>),
   Expr(<<1, 0>>, <<quoted(<<"A">>), Expr(<<0>>, <<quoted(<<"B">>)>>)>>),
   Char72 \o <<"\n">>,
   <<"x", "\n">>}

(***************************************************************************)
(* The state machine: deobfuscate_powershell_reorder(lines).               *)
(***************************************************************************)
VARIABLES
  lines,          \* the argument
  idx,            \* the index of the line the for loop is at (0: none yet)
  content,        \* the working text of that line
  count_matches,  \* placeholders minted for that line
  occurrences,    \* placeholder -> reordered string
  new_content,    \* the lines processed so far
  sweeps,         \* iterations of the while loop on that line, to MaxSweeps
  pc,             \* where control is
  exc             \* the exception that left the function, "" when none

vars ==
  <<lines, idx, content, count_matches, occurrences, new_content, sweeps,
    pc, exc>>

frame == Frame(content, count_matches, occurrences, "")

\* leave a statement with the frame f: go on at pc next, or raise
Leave(f, next) ==
  /\ content' = f.content
  /\ count_matches' = f.count_matches
  /\ occurrences' = f.occurrences
  /\ exc' = f.exc
  /\ pc' = IF f.exc = "" THEN next ELSE "raised"

Start(batches) ==
  /\ lines \in batches
  /\ idx = 0
  /\ content = <<>>
  /\ count_matches = 0
  /\ occurrences = NoOccurrences
  /\ new_content = <<>>
  /\ sweeps = 0
  /\ pc = "for"
  /\ exc = ""

Init == Start({<<l>> : l \in InputLines})

InitBatch == Start(SeqsUpTo(BatchLines, MaxLines))

\* a for loop whose counter and table outlive the line
NextLineKeepingState ==
  /\ pc = "for" /\ idx < Len(lines)
  /\ idx' = idx + 1
  /\ content' = lines[idx + 1]
  /\ sweeps' = 0
  /\ pc' = "char"
  /\ UNCHANGED <<lines, new_content, exc, count_matches, occurrences>>

\* for line in lines: content = line; count_matches = 0; occurrences = {}
NextLine ==
  /\ pc = "for" /\ idx < Len(lines)
  /\ idx' = idx + 1
  /\ content' = lines[idx + 1]
  /\ count_matches' = 0
  /\ occurrences' = NoOccurrences
  /\ sweeps' = 0
  /\ pc' = "char"
  /\ UNCHANGED <<lines, new_content, exc>>

\* the character-code loop
CharCodes ==
  /\ pc = "char"
  /\ Leave(char_pass(frame), "while")
  /\ UNCHANGED <<lines, idx, new_content, sweeps>>

\* while re.search(regex_finder, content): one sweep
Sweep ==
  /\ pc = "while" /\ search(regex_finder, content)
  /\ Leave(sweep(frame), "while")
  /\ sweeps' = IF sweeps < MaxSweeps THEN sweeps + 1 ELSE sweeps
  /\ UNCHANGED <<lines, idx, new_content>>

\* the while condition is false
EndScan ==
  /\ pc = "while" /\ ~search(regex_finder, content)
  /\ pc' = "expand"
  /\ UNCHANGED <<lines, idx, content, count_matches, occurrences,
                 new_content, sweeps, exc>>

\* the placeholder loop
Expand ==
  /\ pc = "expand"
  /\ Leave(expand(frame), "append")
  /\ UNCHANGED <<lines, idx, new_content, sweeps>>

\* new_content.append(content)
AppendLine ==
  /\ pc = "append"
  /\ new_content' = Append(new_content, content)
  /\ pc' = "for"
  /\ UNCHANGED <<lines, idx, content, count_matches, occurrences, sweeps,
                 exc>>

\* return new_content
Return ==
  /\ pc = "for" /\ idx = Len(lines)
  /\ pc' = "returned"
  /\ UNCHANGED <<lines, idx, content, count_matches, occurrences,
                 new_content, sweeps, exc>>

Next ==
  \/ NextLine
  \/ CharCodes
  \/ Sweep
  \/ EndScan
  \/ Expand
  \/ AppendLine
  \/ Return

Spec == Init /\ [][Next]_vars

SpecBatch == InitBatch /\ [][Next]_vars

(***************************************************************************)
(* The properties.                                                         *)
(***************************************************************************)
\* the line being processed
line == lines[idx]

\* the text holds the placeholder token shape {#subs_N}
HasToken(text) == search(regex_placeholder_ignorecase, text)

\* one expression whose template and fragment counts differ
MismatchLines == {c.text : c \in {d \in SimpleCases : Len(d.t) # Len(d.fs)}}

\* one expression of literal fragments, as many as the template has
\* indices, one index at least not below their number
OutOfRangeLines ==
  {c.text : c \in {d \in SimpleCases :
                     /\ Len(d.t) = Len(d.fs)
                     /\ \E k \in 1..Len(d.t) : d.t[k] >= Len(d.fs)}}

\* one expression of n literal fragments and n indices, all in 0..n-1,
\* with the text the claim gives it: the trimmed fragments in template order
BasicCases ==
  {[text |-> d.text,
    value |-> d.a[1]
              \o Concat([k \in 1..Len(d.t) |-> strip(d.fs[d.t[k] + 1])])
              \o d.a[2]] :
     d \in {c \in SimpleCases :
              /\ Len(c.t) = Len(c.fs)
              /\ \A k \in 1..Len(c.t) : c.t[k] < Len(c.fs)}}
BasicLines == {c.text : c \in BasicCases}

\* C1: every sweep of the scanning loop that runs to its end resolves at
\* least one reorder expression (so the loop terminates on every line,
\* also on one whose template and fragment counts differ).
C1_EverySweepResolves ==
  [][(Sweep /\ pc' = "while") => count_matches' > count_matches]_vars

\* C2: on a line whose reorder expression has a number of indices
\* different from its number of fragments, the expression stays in the
\* text, no placeholder is minted, the table stays empty, the scanning
\* loop is over after the sweep that left the expression alone (a second
\* sweep of the same text repeats the first, for ever), and the line is
\* returned unchanged.
C2_MismatchReturnedUnchanged ==
  (idx = 1 /\ line \in MismatchLines)
    => /\ content = line
       /\ count_matches = 0
       /\ occurrences = NoOccurrences
       /\ sweeps <= 1
       /\ pc = "returned" => new_content = lines

\* C3: a line whose reorder expression has an index not below the number
\* of fragments raises nothing, and is returned unchanged.
C3_OutOfRangeFailOpen ==
  (idx = 1 /\ line \in OutOfRangeLines)
    => /\ pc # "raised"
       /\ pc = "returned" => new_content = lines

\* C4: for a line holding one reorder expression with n indices, all in
\* 0..n-1, and n literal fragments, nothing is raised, one sweep resolves
\* the expression, and the line is returned with the expression replaced
\* by the trimmed fragments concatenated in template order, the text
\* around it unchanged.
C4_BasicReorder ==
  (idx = 1 /\ line \in BasicLines)
    => /\ pc # "raised"
       /\ sweeps <= 1
       /\ pc \in {"append", "returned"}
            => \A c \in BasicCases : c.text = line =>
                 /\ content = c.value
                 /\ pc = "returned" => new_content = <<c.value>>

\* C4's case: an unsorted template over padded fragments, inside text,
\* returned as "x BA y\n"
C4_Witness ==
  /\ pc = "returned"
  /\ lines = <<SimpleLine(<<<<"x", " ">>, <<" ", "y", "\n">>>>, <<1, 0>>,
                          <<<<"A">>, <<" ", "B", " ">>>>)>>
  /\ new_content = <<<<"x", " ", "B", "A", " ", "y", "\n">>>>

\* C5: for a line that is a reorder expression one of whose fragments is
\* itself a reorder expression (and so on to depth d), the k-th sweep
\* resolves the expression of level k and no other: after k sweeps the
\* table maps the k-th placeholder to the literal of level k, computed
\* from the literals of the levels below, and while k < d the outer
\* expression is still in the text; the line is returned as the literal of
\* the outermost expression, with no placeholder token in it.
C5_NestedResolution ==
  (idx = 1 /\ line \in NestedLines)
    => \A n \in NestedExprs : n.text = line =>
         /\ pc # "raised"
         /\ pc = "while" =>
              /\ sweeps <= n.depth
              /\ count_matches = sweeps
              /\ \A k \in 1..sweeps :
                   /\ placeholder(k - 1) \in DOMAIN occurrences
                   /\ occurrences[placeholder(k - 1)] = n.values[k]
              /\ sweeps < n.depth => search(regex_finder, content)
              /\ sweeps = n.depth => content = placeholder(n.depth - 1)
         /\ pc \in {"expand", "append", "for", "returned"} =>
              sweeps = n.depth
         /\ pc = "returned" =>
              /\ new_content = <<n.values[n.depth]>>
              /\ ~HasToken(new_content[1])

\* C5's case: ("{1}{0}" -f 'C',("{1}{0}" -f 'A','B')) after its second
\* sweep: the inner expression became the first placeholder, the outer one
\* the second, whose literal holds the inner literal BA
C5_Witness ==
  /\ pc = "while" /\ sweeps = 2 /\ count_matches = 2
  /\ lines = <<Expr(<<1, 0>>,
                    <<quoted(<<"C">>),
                      Expr(<<1, 0>>, <<quoted(<<"A">>), quoted(<<"B">>)>>)>>)>>
  /\ occurrences[placeholder(0)] = <<"B", "A">>
  /\ occurrences[placeholder(1)] = <<"B", "A", "C">>

\* C6 as claimed: the line the expansion sweep leaves holds no placeholder
\* token and no reorder expression, whatever the fragments were.
C6_Completeness ==
  pc = "append" => ~HasToken(content) /\ ~search(regex_finder, content)

\* the characters of a text
Chars(text) == {text[i] : i \in 1..Len(text)}

\* C6 as amended: when neither the line nor a literal of the table holds
\* the character #, the line the expansion sweep leaves holds no
\* placeholder token.
C6_NoTokenLeft ==
  (/\ pc = "append"
   /\ "#" \notin Chars(line)
   /\ \A k \in DOMAIN occurrences : "#" \notin Chars(occurrences[k]))
    => ~HasToken(content)

\* C6's case: a line without # whose expansion sweep replaced placeholders
C6_Witness ==
  /\ pc = "append"
  /\ count_matches = 2
  /\ "#" \notin Chars(line)
  /\ \A k \in DOMAIN occurrences : "#" \notin Chars(occurrences[k])
  /\ ~HasToken(content)

RECURSIVE CodesReplaced(_, _)
CodesReplaced(text, i) ==
  IF i > Len(text) THEN <<>>
  ELSE IF regex_char(text, i) # 0
       THEN quoted(<<chr(int(SubSeq(text, i + 6, regex_char(text, i) - 1)))>>)
              \o CodesReplaced(text, regex_char(text, i))
       ELSE <<text[i]>> \o CodesReplaced(text, i + 1)

NoTicks(text) == replace(text, <<Backtick>>, <<>>)

\* C8: when the first scan for reorder expressions begins, every [char]N
\* construct of the line has been replaced by the character of ordinal N
\* in single quotes and the backticks of a line with such a construct are
\* gone (those around the construct among them); an expression over
\* [char]72 is resolved to H.
C8_CharCodePrepass ==
  /\ (pc = "while" /\ sweeps = 0) =>
       /\ NoTicks(content) = NoTicks(CodesReplaced(line, 1))
       /\ search(regex_char, line) => \A i \in 1..Len(content) :
                                        content[i] # Backtick
  /\ (pc = "returned" /\ lines = <<Expr(<<0>>, <<Char72>>)>>) =>
       new_content = <<<<"H">>>>

\* C9: each line is processed from a counter of 0 and an empty table;
\* every line appended so far is what the line yields on its own, in the
\* order of the input; the call returns one line per input line.
C9_PerLineIndependence ==
  /\ pc = "char" => count_matches = 0 /\ occurrences = NoOccurrences
  /\ Len(new_content) <= Len(lines)
  /\ \A i \in 1..Len(new_content) :
       /\ resolve_line(lines[i]).exc = ""
       /\ new_content[i] = resolve_line(lines[i]).content
  /\ pc = "returned" => Len(new_content) = Len(lines)

\* C9's case: a line that mentions the first placeholder, returned after a
\* line that minted one: it yields "A A", the literal of its own
\* expression, not the B of the line before
C9_Witness ==
  /\ pc = "returned"
  /\ lines = <<Expr(<<0>>, <<quoted(<<"B">>)>>),
               quoted(TokenText(0)) \o <<" ">>
                 \o Expr(<<0>>, <<quoted(<<"A">>)>>)>>
  /\ new_content = <<<<"B">>, <<"A", " ", "A">>>>

\* C10: when the scanning loop ends, every placeholder token in the
\* working text has an entry in the table.
C10_TableComplete ==
  pc = "expand"
    => LET ms == finditer(regex_placeholder_ignorecase, content, 1)
       IN  \A k \in 1..Len(ms) :
             quoted(group(content, ms[k])) \in DOMAIN occurrences

====
